---- MODULE Spec2Model ----
(***************************************************************************)
(* Model of Calculator.py: calculate_development_returns (equity multiple  *)
(* and IRR of a cash-flow series) and the module-level reporting code.     *)
(*                                                                         *)
(* Numbers.  Cash flows and equity are Python ints.  A Python float is     *)
(* modelled by the real number it stands for, kept exact:                  *)
(*   - equity_multiple (int / int) is the rational [num, den]; the         *)
(*     rounding of that quotient to a double is accounted for in round_em; *)
(*   - the rate returned by npf.irr is [kind, floor, exact]: floor is      *)
(*     floor(rate * RateScale) and exact says whether rate * RateScale is  *)
(*     that integer;                                                       *)
(*   - a value rounded to 2 decimals is the integer number of hundredths   *)
(*     (1.62 is 162, 27.48 % is 2748).                                     *)
(***************************************************************************)
EXTENDS Integers, Sequences, FiniteSets

VARIABLES frame

vars == <<frame>>

\* ---------------------------------------------------------------- bounds
MaxLen == 3
MaxAmt == 2

\* ------------------------------------------------------ program constants
INVESTOR_EQUITY == -400000
CASH_FLOW_STREAM == <<INVESTOR_EQUITY, 0, 650000>>
IRR_FAILED == "N/A (IRR calculation failed)"

\* ------------------------------------------------- fixed-point resolution
RateScale == 10^5
BigBase == 10^3

abs(n) == IF n < 0 THEN -n ELSE n

sign(n) == IF n < 0 THEN -1 ELSE IF n > 0 THEN 1 ELSE 0

\* ------------------------------------------- exact arithmetic on naturals
\* A natural number as its limbs in base BigBase, least significant first,
\* without high zero limbs (0 is <<>>).
RECURSIVE BigFromNat(_)
BigFromNat(n) ==
    IF n = 0 THEN <<>> ELSE <<n % BigBase>> \o BigFromNat(n \div BigBase)

RECURSIVE BigMulCarry(_, _, _)
BigMulCarry(b, s, carry) ==
    IF b = <<>> THEN BigFromNat(carry)
    ELSE LET t == Head(b) * s + carry
         IN  <<t % BigBase>> \o BigMulCarry(Tail(b), s, t \div BigBase)

BigMulSmall(b, s) == IF s = 0 THEN <<>> ELSE BigMulCarry(b, s, 0)

RECURSIVE BigTimesPow(_, _, _)
BigTimesPow(b, s, k) ==
    IF k = 0 THEN b ELSE BigTimesPow(BigMulSmall(b, s), s, k - 1)

RECURSIVE BigAddCarry(_, _, _)
BigAddCarry(a, b, carry) ==
    IF a = <<>> /\ b = <<>> THEN BigFromNat(carry)
    ELSE LET x == IF a = <<>> THEN 0 ELSE Head(a)
             y == IF b = <<>> THEN 0 ELSE Head(b)
             t == x + y + carry
         IN  <<t % BigBase>>
             \o BigAddCarry(IF a = <<>> THEN a ELSE Tail(a),
                            IF b = <<>> THEN b ELSE Tail(b),
                            t \div BigBase)

BigAdd(a, b) == BigAddCarry(a, b, 0)

RECURSIVE BigCmpFrom(_, _, _)
BigCmpFrom(a, b, i) ==
    IF i = 0 THEN 0
    ELSE IF a[i] < b[i] THEN -1
    ELSE IF a[i] > b[i] THEN 1
    ELSE BigCmpFrom(a, b, i - 1)

BigCmp(a, b) ==
    IF Len(a) < Len(b) THEN -1
    ELSE IF Len(a) > Len(b) THEN 1
    ELSE BigCmpFrom(a, b, Len(a))

\* ------------------------------------------------------ net present value
\* Index (1-based) of the last entry of values that is not 0, or 0.
RECURSIVE LastNonZero(_, _)
LastNonZero(values, j) ==
    IF j = 0 THEN 0
    ELSE IF values[j] # 0 THEN j
    ELSE LastNonZero(values, j - 1)

RECURSIVE FirstNonZero(_, _)
FirstNonZero(values, j) ==
    IF j > Len(values) THEN 0
    ELSE IF values[j] # 0 THEN j
    ELSE FirstNonZero(values, j + 1)

\* Number of sign changes along the non-zero entries of values.
RECURSIVE SignChanges(_, _, _)
SignChanges(values, j, prev) ==
    IF j > Len(values) THEN 0
    ELSE IF values[j] = 0 THEN SignChanges(values, j + 1, prev)
    ELSE (IF prev # 0 /\ sign(values[j]) # prev THEN 1 ELSE 0)
         + SignChanges(values, j + 1, sign(values[j]))

RECURSIVE MaxAbs(_)
MaxAbs(values) ==
    IF values = <<>> THEN 0
    ELSE LET m == MaxAbs(Tail(values))
         IN  IF abs(Head(values)) > m THEN abs(Head(values)) ELSE m

\* With x = X / M = 1 + rate, NPV(rate) * x^N * M^N is the sum over the
\* periods i = 0..N of values[i] * X^(N-i) * M^i.  NpvSide sums the
\* magnitudes of the terms whose cash flow has sign sgn.
RECURSIVE NpvSide(_, _, _, _, _)
NpvSide(values, X, M, sgn, j) ==
    IF j > Len(values) THEN <<>>
    ELSE LET rest == NpvSide(values, X, M, sgn, j + 1)
         IN  IF sign(values[j]) # sgn THEN rest
             ELSE BigAdd(BigTimesPow(BigTimesPow(BigFromNat(abs(values[j])),
                                                 X, Len(values) - j),
                                     M, j - 1),
                         rest)

\* Sign of the net present value of values at the rate X / M - 1 (X > 0).
NpvSign(values, X, M) ==
    BigCmp(NpvSide(values, X, M, 1, 1), NpvSide(values, X, M, -1, 1))

\* ------------------------------------------------------------- npf.irr
NaN == [kind |-> "nan", floor |-> 0, exact |-> TRUE]

\* Largest X in lo..hi-1 at which the NPV still has the sign it has near
\* rate -1 (the sign s of the last non-zero flow), given that it has that
\* sign (or is 0) at lo and the opposite sign at hi.
RECURSIVE IrrBisect(_, _, _, _)
IrrBisect(values, s, lo, hi) ==
    IF hi - lo <= 1 THEN lo
    ELSE LET mid == (lo + hi) \div 2
         IN  IF s * NpvSign(values, mid, RateScale) >= 0
             THEN IrrBisect(values, s, mid, hi)
             ELSE IrrBisect(values, s, lo, mid)

\* numpy_financial.irr on a flat list of finite numbers: the rate > -1 with
\* NPV(rate) = 0, or NaN when there is none; it does not raise.  A series
\* whose non-zero flows change sign once has exactly one such rate
\* (Descartes' rule of signs); one without a sign change has none.
npf_irr(values) ==
    CASE SignChanges(values, 1, 0) = 0 -> NaN
      [] SignChanges(values, 1, 0) = 1 ->
            LET s  == sign(values[LastNonZero(values, Len(values))])
                hi == RateScale
                      * (2 + MaxAbs(values)
                             \div abs(values[FirstNonZero(values, 1)]))
                X  == IrrBisect(values, s, 0, hi)
            IN  [kind  |-> "rate",
                 floor |-> X - RateScale,
                 exact |-> X > 0 /\ NpvSign(values, X, RateScale) = 0]

\* ------------------------------------------------------------ rounding
\* floor(log2(a / b)) for integers a, b > 0.
RECURSIVE FloorLog2(_, _)
FloorLog2(a, b) ==
    IF a >= 2 * b THEN FloorLog2(a, 2 * b) + 1
    ELSE IF a < b THEN FloorLog2(2 * a, b) - 1
    ELSE 0

RECURSIVE Pow2Mod25(_)
Pow2Mod25(k) == IF k = 0 THEN 1 ELSE (2 * Pow2Mod25(k - 1)) % 25

\* Halfway cases rounded up instead.
RoundTieHalfUp(h) == h + 1

\* The quotient num / den = (2h + 1) / 200 lies halfway between h and h + 1
\* hundredths.  Python rounds the double nearest to the quotient: when
\* 25 divides 2h + 1 the quotient is a double and the tie goes to the even
\* hundredth; otherwise the double (53-bit significand) lies above or below
\* the quotient as (2h + 1) * 2^(49 - e) / 25 is rounded up or down, where
\* e = floor(log2(quotient)).
RoundTie(h) ==
    LET m   == 2 * h + 1
        e   == FloorLog2(m, 200)
        r25 == ((m % 25) * Pow2Mod25(49 - e)) % 25
    IN  IF r25 = 0 THEN (IF h % 2 = 0 THEN h ELSE h + 1)
        ELSE IF r25 <= 12 THEN h
        ELSE h + 1

\* round(num / den, 2) for ints num >= 0, den > 0, in hundredths.
round2_nonneg(num, den) ==
    LET h   == (100 * num) \div den
        rem == (100 * num) % den
    IN  IF 2 * rem < den THEN h
        ELSE IF 2 * rem > den THEN h + 1
        ELSE RoundTie(h)

\* round(num / den, 2) for ints num, den with den # 0, in hundredths.
round2(num, den) ==
    sign(num) * sign(den) * round2_nonneg(abs(num), abs(den))

\* The values round(x, 2) can take, in hundredths, for the float x whose
\* floor(x * scale) is fl (scale a multiple of 200).  When the number the
\* float stands for is exactly halfway, the error of the float decides.
round2_fixed(fl, exact, scale) ==
    LET unit == scale \div 100
        h    == fl \div unit
        rem  == fl % unit
    IN  IF 2 * rem < unit THEN {h}
        ELSE IF 2 * rem > unit \/ ~exact THEN {h + 1}
        ELSE {h, h + 1}

\* ------------------------------------- calculate_development_returns
Unset == [kind |-> "unset", v |-> 0]

\* The parameters and locals of one call, and what its caller got back.
NewFrame(investor_equity, cash_flows) ==
    [pc                  |-> "L20",
     investor_equity     |-> investor_equity,
     cash_flows          |-> cash_flows,
     total_distributions |-> 0,
     total_profit        |-> 0,
     equity_multiple     |-> [num |-> 0, den |-> 1],
     irr_percentage      |-> Unset,
     em                  |-> 0,
     irr                 |-> Unset,
     raised              |-> "",
     shown_profit        |-> 0]

\* The distributions taken as the positive flows after period 0 only.
RECURSIVE SumAfterFirst(_)
SumAfterFirst(cash_flows) ==
    IF Len(cash_flows) <= 1 THEN 0
    ELSE (IF cash_flows[Len(cash_flows)] > 0
          THEN cash_flows[Len(cash_flows)] ELSE 0)
         + SumAfterFirst(SubSeq(cash_flows, 1, Len(cash_flows) - 1))

\* sum(c for c in cash_flows if c > 0)
RECURSIVE SumPositive(_)
SumPositive(cash_flows) ==
    IF cash_flows = <<>> THEN 0
    ELSE (IF Head(cash_flows) > 0 THEN Head(cash_flows) ELSE 0)
         + SumPositive(Tail(cash_flows))

\* The sum taken by popping the entries off the caller's list.
Line20Consuming(f) ==
    [f EXCEPT !.pc = "L21",
              !.total_distributions = SumPositive(f.cash_flows),
              !.cash_flows = <<>>]

Line20(f) ==
    [f EXCEPT !.pc = "L21",
              !.total_distributions = SumPositive(f.cash_flows)]

\* cash_flows[0] raises IndexError on an empty list.
Line21(f) ==
    IF f.cash_flows = <<>>
    THEN [f EXCEPT !.pc = "raised", !.raised = "IndexError"]
    ELSE [f EXCEPT !.pc = "L22",
                   !.total_profit = f.total_distributions
                                    - abs(f.cash_flows[1])]

\* A non-positive equity rejected.
Line22RejectsNonPositive(f) ==
    IF f.investor_equity <= 0
    THEN [f EXCEPT !.pc = "raised", !.raised = "ValueError"]
    ELSE [f EXCEPT !.pc = "L27",
                   !.equity_multiple = [num |-> f.total_distributions,
                                        den |-> f.investor_equity]]

\* The division without abs().
Line22NoAbs(f) ==
    IF f.investor_equity = 0
    THEN [f EXCEPT !.pc = "raised", !.raised = "ZeroDivisionError"]
    ELSE [f EXCEPT !.pc = "L27",
                   !.equity_multiple = [num |-> f.total_distributions,
                                        den |-> f.investor_equity]]

\* int / int raises ZeroDivisionError on a zero divisor.
Line22(f) ==
    IF abs(f.investor_equity) = 0
    THEN [f EXCEPT !.pc = "raised", !.raised = "ZeroDivisionError"]
    ELSE [f EXCEPT !.pc = "L27",
                   !.equity_multiple = [num |-> f.total_distributions,
                                        den |-> abs(f.investor_equity)]]

\* round(irr * 100): whole percents.
IrrPercentagesWhole(irr) ==
    IF irr.kind = "nan" THEN {[kind |-> "nan", v |-> 0]}
    ELSE {[kind |-> "num", v |-> 100 * h] :
             h \in round2_fixed(irr.floor, irr.exact, RateScale)}

\* round(irr, 2): the rate, not the percentage.
IrrPercentagesNoScale(irr) ==
    IF irr.kind = "nan" THEN {[kind |-> "nan", v |-> 0]}
    ELSE {[kind |-> "num", v |-> h] :
             h \in round2_fixed(irr.floor, irr.exact, RateScale)}

\* round(irr * 100, 2): the values it can take for the float irr.
IrrPercentages(irr) ==
    IF irr.kind = "nan" THEN {[kind |-> "nan", v |-> 0]}
    ELSE {[kind |-> "num", v |-> h] :
             h \in round2_fixed(irr.floor, irr.exact, RateScale \div 100)}

\* try: irr = npf.irr(cash_flows); irr_percentage = round(irr * 100, 2)
\* except ValueError: irr_percentage = "N/A (IRR calculation failed)"
\* round(nan, 2) is nan.  npf_irr has no "ValueError" outcome for a flat
\* list of numbers, which is all line 20 lets through.
TryIrr(f, irr) ==
    IF irr.kind = "ValueError"
    THEN {[f EXCEPT !.pc = "L33",
                    !.irr_percentage = [kind |-> IRR_FAILED, v |-> 0]]}
    ELSE {[f EXCEPT !.pc = "L33", !.irr_percentage = p] :
             p \in IrrPercentages(irr)}

\* return round(equity_multiple, 2), irr_percentage
Line33(f) ==
    [f EXCEPT !.pc = "returned",
              !.em = round2(f.equity_multiple.num, f.equity_multiple.den),
              !.irr = f.irr_percentage]

\* print(f"Total Profit: ${CASH_FLOW_STREAM[-1] - abs(INVESTOR_EQUITY):,.0f}")
Display(f) ==
    [f EXCEPT !.pc = "displayed",
              !.shown_profit = f.cash_flows[Len(f.cash_flows)]
                               - abs(f.investor_equity)]

\* ------------------------------------------------------------- callers
\* The calls in progress or finished, by caller: "script" is the
\* module-level code, "client" a caller that imported the function.
Callers == DOMAIN frame

Amounts == (-MaxAmt)..MaxAmt

Equities == Amounts \cup {3, 8, 400}

SeqsUpTo(n) == UNION {[1..k -> Amounts] : k \in 0..n}

\* Series whose non-zero flows change sign at most once.  (With more sign
\* changes the NPV can have several roots, and which of them npf.irr
\* returns, or whether it finds a real one at all, depends on floating
\* point eigenvalues; npf_irr does not cover them.)
CashFlowSeries == {cf \in SeqsUpTo(MaxLen) : SignChanges(cf, 1, 0) <= 1}

\* em, irr = calculate_development_returns(abs(INVESTOR_EQUITY),
\*                                         CASH_FLOW_STREAM)
ScriptCall == NewFrame(abs(INVESTOR_EQUITY), CASH_FLOW_STREAM)

\* What npf.irr returns for each series a caller passes.
IrrResults ==
    {<<cf, npf_irr(cf)>> : cf \in CashFlowSeries \cup {CASH_FLOW_STREAM}}

\* One call: the module-level one, or a client's with inputs of its own.
Init ==
    \/ frame = [c \in {"script"} |-> ScriptCall]
    \/ \E e \in Equities, cf \in CashFlowSeries :
          frame = [c \in {"client"} |-> NewFrame(e, cf)]

\* The inputs of a client that calls while the module-level call runs.
ConcurrentEquities == {-1, 0, 2, 400000}

ConcurrentSeries ==
    {<<>>, <<-1>>, <<0, 0>>, <<-1, 2>>, <<2, -1>>, <<-2, 0, 1>>,
     CASH_FLOW_STREAM}

\* Two calls at once: the module-level one and a client's.
InitConcurrent ==
    \E e \in ConcurrentEquities, cf \in ConcurrentSeries :
        frame = [c \in {"script", "client"} |->
                    IF c = "script" THEN ScriptCall ELSE NewFrame(e, cf)]

SumDistributions ==
    \E c \in Callers :
        /\ frame[c].pc = "L20"
        /\ frame' = [frame EXCEPT ![c] = Line20(frame[c])]

Profit ==
    \E c \in Callers :
        /\ frame[c].pc = "L21"
        /\ frame' = [frame EXCEPT ![c] = Line21(frame[c])]

EquityMultiple ==
    \E c \in Callers :
        /\ frame[c].pc = "L22"
        /\ frame' = [frame EXCEPT ![c] = Line22(frame[c])]

Irr ==
    \E c \in Callers :
        /\ frame[c].pc = "L27"
        /\ \E r \in IrrResults :
              /\ r[1] = frame[c].cash_flows
              /\ \E g \in TryIrr(frame[c], r[2]) :
                    frame' = [frame EXCEPT ![c] = g]

Return ==
    \E c \in Callers :
        /\ frame[c].pc = "L33"
        /\ frame' = [frame EXCEPT ![c] = Line33(frame[c])]

\* The caller prints the result; a call that raised ends its caller.
Report ==
    \E c \in Callers :
        /\ frame[c].pc = "returned"
        /\ frame' = [frame EXCEPT ![c] = Display(frame[c])]

Next ==
    \/ SumDistributions
    \/ Profit
    \/ EquityMultiple
    \/ Irr
    \/ Return
    \/ Report

Spec == Init /\ [][Next]_vars

SpecConcurrent == InitConcurrent /\ [][Next]_vars

\* ---------------------------------------------------------- properties
Returned(f) == f.pc \in {"returned", "displayed"}

Finished(f) == f.pc \in {"returned", "displayed", "raised"}

\* Total of the entries of cf that are > 0, over all positions.
RECURSIVE StrictlyPositiveTotal(_, _)
StrictlyPositiveTotal(cf, j) ==
    IF j = 0 THEN 0
    ELSE (IF cf[j] > 0 THEN cf[j] ELSE 0) + StrictlyPositiveTotal(cf, j - 1)

NoPositiveEntry(cf) == \A i \in 1..Len(cf) : cf[i] <= 0

\* All entries >= 0 or all entries <= 0.
OneSigned(cf) ==
    \/ \A i \in 1..Len(cf) : cf[i] >= 0
    \/ \A i \in 1..Len(cf) : cf[i] <= 0

\* C1: with investor_equity > 0 a call on a series (non-empty: it has a
\* period 0) does not raise, and the returned equity multiple is
\* round(S / investor_equity, 2), S being the total of the entries > 0 at
\* any position; for [-E, 0, D] and equity E it is round(D / E, 2).
C1_EquityMultiple ==
    \A c \in Callers :
        LET f  == frame[c]
            cf == f.cash_flows
        IN  /\ cf # <<>> /\ f.investor_equity > 0 => f.pc # "raised"
            /\ Returned(f) /\ f.investor_equity > 0 =>
              /\ f.em = round2(StrictlyPositiveTotal(cf, Len(cf)),
                               f.investor_equity)
              /\ (/\ Len(cf) = 3
                  /\ cf[1] = -f.investor_equity
                  /\ cf[2] = 0
                  /\ cf[3] > 0) => f.em = round2(cf[3], f.investor_equity)

\* A call returned 0.67 for equity 3 and [2, -1, 0]: the positive entry is
\* at index 0 and the negative and zero entries are left out.
C1_Witness ==
    \E c \in Callers :
        /\ frame[c].pc = "returned"
        /\ frame[c].investor_equity = 3
        /\ frame[c].cash_flows = <<2, -1, 0>>
        /\ frame[c].em = 67

\* C2: for a series whose entries are all >= 0 or all <= 0 the call
\* returns and its IRR component is the IRR-failure placeholder string.
C2_DegenerateSentinel ==
    \A c \in Callers :
        LET f == frame[c]
        IN  Returned(f) /\ OneSigned(f.cash_flows) =>
              f.irr.kind = IRR_FAILED

\* C3: a numeric IRR percentage p has an NPV root within the rounding of
\* its two decimals: the NPV at p - 0.005 % and at p + 0.005 % do not have
\* the same strict sign.
C3_NpvZero ==
    \A c \in Callers :
        LET f == frame[c]
            X == 2 * (10^4 + f.irr.v)
        IN  Returned(f) /\ f.irr.kind = "num" =>
              NpvSign(f.cash_flows, X - 1, 2 * 10^4)
              * NpvSign(f.cash_flows, X + 1, 2 * 10^4) <= 0

\* A call returned 41.42 % for [-1, 0, 2].
C3_Witness ==
    \E c \in Callers :
        /\ frame[c].pc = "returned"
        /\ frame[c].cash_flows = <<-1, 0, 2>>
        /\ frame[c].irr = [kind |-> "num", v |-> 4142]

\* C4: a call in which the IRR is not determined does not raise there: it
\* goes on to return the rounded equity multiple, with the placeholder
\* string as IRR component.
C4_DegradesToSentinel ==
    \A c \in Callers :
        LET f == frame[c]
        IN  f.pc \in {"L33", "returned", "displayed"}
            /\ f.irr_percentage.kind # "num" =>
              /\ f.irr_percentage.kind = IRR_FAILED
              /\ Returned(f) =>
                    f.em = round2(f.total_distributions,
                                  abs(f.investor_equity))

\* C5 as stated: no call with fewer than 2 cash flows or with
\* investor_equity <= 0 returns a result.
C5_FailsFast ==
    \A c \in Callers :
        LET f == frame[c]
        IN  Returned(f) =>
              Len(f.cash_flows) >= 2 /\ f.investor_equity > 0

\* C5 amended: a call raises exactly for an empty series (IndexError) and
\* for investor_equity = 0 (ZeroDivisionError), and then returns nothing;
\* a one-entry series and a negative equity are accepted.
C5_RaisesOnEmptyOrZero ==
    \A c \in Callers :
        LET f == frame[c]
        IN  /\ Returned(f) => f.cash_flows # <<>> /\ f.investor_equity # 0
            /\ f.pc = "raised" =>
                 /\ f.cash_flows = <<>> \/ f.investor_equity = 0
                 /\ f.raised = IF f.cash_flows = <<>> THEN "IndexError"
                               ELSE "ZeroDivisionError"
            /\ f.cash_flows = <<>> => f.pc \in {"L20", "L21", "raised"}
            /\ f.investor_equity = 0 =>
                 f.pc \in {"L20", "L21", "L22", "raised"}

\* A call with equity 0 and two cash flows ended in ZeroDivisionError.
C5_Witness ==
    \E c \in Callers :
        /\ frame[c].pc = "raised"
        /\ frame[c].raised = "ZeroDivisionError"
        /\ Len(frame[c].cash_flows) = 2

\* C6: no step of any call changes a caller's cash_flows or
\* investor_equity, and two finished calls with equal inputs have equal
\* outcomes, however their steps were interleaved.
C6_Pure ==
    /\ [][\A c \in Callers :
             /\ frame'[c].cash_flows = frame[c].cash_flows
             /\ frame'[c].investor_equity = frame[c].investor_equity]_vars
    /\ [](\A c, d \in Callers :
             LET f == frame[c]
                 g == frame[d]
             IN  (/\ Finished(f) /\ Finished(g)
                  /\ f.cash_flows = g.cash_flows
                  /\ f.investor_equity = g.investor_equity) =>
                    /\ f.raised = g.raised
                    /\ f.em = g.em
                    /\ f.irr = g.irr)

\* Both callers passed equity 400000 and [-400000, 0, 650000], and both
\* calls have returned.
C6_Witness ==
    /\ frame["client"].cash_flows = CASH_FLOW_STREAM
    /\ frame["client"].investor_equity = abs(INVESTOR_EQUITY)
    /\ frame["client"].pc = "returned"
    /\ frame["script"].pc = "returned"

\* C7: equity 400000 with [-400000, 0, 650000] gives equity multiple 1.62,
\* total profit 250000 and IRR 27.48 %; for [-E, 0, D] with E, D > 0 the
\* IRR percentage p is (sqrt(D / E) - 1) * 100 rounded to 2 decimals, that
\* is (1 + (p - 0.005) / 100)^2 <= D / E <= (1 + (p + 0.005) / 100)^2.
C7_Scenario ==
    \A c \in Callers :
        LET f  == frame[c]
            cf == f.cash_flows
            E  == BigFromNat(abs(cf[1]))
            D  == BigFromNat(cf[3])
            X  == 2 * (10^4 + f.irr.v)
        IN  Returned(f) =>
              /\ (f.investor_equity = 400000
                  /\ cf = <<-400000, 0, 650000>>) =>
                    /\ f.em = 162
                    /\ f.total_profit = 250000
                    /\ f.irr = [kind |-> "num", v |-> 2748]
              /\ (Len(cf) = 3 /\ cf[1] < 0 /\ cf[2] = 0 /\ cf[3] > 0) =>
                    /\ f.irr.kind = "num"
                    /\ BigCmp(BigTimesPow(E, X - 1, 2),
                              BigTimesPow(D, 2 * 10^4, 2)) <= 0
                    /\ BigCmp(BigTimesPow(D, 2 * 10^4, 2),
                              BigTimesPow(E, X + 1, 2)) <= 0

\* The module-level call has returned 1.62.
C7_Witness ==
    \E c \in Callers :
        /\ c = "script"
        /\ frame[c].pc = "displayed"
        /\ frame[c].em = 162
        /\ frame[c].irr = [kind |-> "num", v |-> 2748]

\* C8: for [-E, D] with E, D > 0 and equity E the equity multiple is
\* round(D / E, 2) and the IRR percentage is (D / E - 1) * 100 rounded to
\* 2 decimals.
C8_SinglePeriod ==
    \A c \in Callers :
        LET f  == frame[c]
            cf == f.cash_flows
        IN  (/\ Returned(f)
             /\ Len(cf) = 2
             /\ f.investor_equity > 0
             /\ cf[1] = -f.investor_equity
             /\ cf[2] > 0) =>
               /\ f.em = round2(cf[2], f.investor_equity)
               /\ f.irr.kind = "num"
               /\ 2 * abs(f.irr.v * f.investor_equity
                          - 10^4 * (cf[2] - f.investor_equity))
                  <= f.investor_equity

\* A call returned 0.5 and -50.00 % for equity 2 and [-2, 1].
C8_Witness ==
    \E c \in Callers :
        /\ frame[c].pc = "returned"
        /\ frame[c].investor_equity = 2
        /\ frame[c].cash_flows = <<-2, 1>>
        /\ frame[c].em = 50
        /\ frame[c].irr = [kind |-> "num", v |-> -5000]

\* C9: for a series of at least 2 entries that starts with
\* -investor_equity, the Total Profit the report shows is the
\* total_profit the function computed.
C9_ShownProfitIsTotalProfit ==
    \A c \in Callers :
        LET f == frame[c]
        IN  (/\ f.pc = "displayed"
             /\ Len(f.cash_flows) >= 2
             /\ f.investor_equity > 0
             /\ f.cash_flows[1] = -f.investor_equity) =>
               f.shown_profit = f.total_profit

\* C10: for a non-empty series and investor_equity # 0 of either sign the
\* returned equity multiple is not negative, the quotient it is rounded
\* from is 0 exactly when no entry is > 0, and then 0 is returned.
C10_NonNegative ==
    \A c \in Callers :
        LET f == frame[c]
        IN  (/\ Returned(f)
             /\ f.cash_flows # <<>>
             /\ f.investor_equity # 0) =>
               /\ f.em >= 0
               /\ f.equity_multiple.den > 0
               /\ f.equity_multiple.num = 0 <=> NoPositiveEntry(f.cash_flows)
               /\ NoPositiveEntry(f.cash_flows) => f.em = 0

\* A call with a negative equity and no positive entry returned 0.
C10_Witness ==
    \E c \in Callers :
        /\ frame[c].pc = "returned"
        /\ frame[c].investor_equity < 0
        /\ frame[c].cash_flows # <<>>
        /\ NoPositiveEntry(frame[c].cash_flows)
        /\ frame[c].em = 0

====
